---- MODULE Spec2Model ----
(***************************************************************************)
(* Typestate JWT claims (src/src/jwt.rs): Claims<T, Encoded> and           *)
(* Claims<T, Decoded<T>>, the ClaimsSubTrait contract, and the calls into  *)
(* jsonwebtoken / serde / time that new, encode and decode make.           *)
(*                                                                         *)
(* A caller owns one value at a time (Rust moves): every method consumes   *)
(* the value it is applied to and leaves its result in `val`.              *)
(***************************************************************************)
EXTENDS Integers, Sequences, FiniteSets

VARIABLES now, ticks, obs, val, last, minted

vars == <<now, ticks, obs, val, last, minted>>

(***************************************************************************)
(* Bounds of the model.                                                    *)
(***************************************************************************)
\* Clock resolution: the clock counts 1/SubPerSec seconds, unix_timestamp()
\* and get_current_timestamp() truncate to whole seconds.
SubPerSec == 2
\* Number of clock advances in one behaviour.
MaxTicks == 3
\* Unix time (seconds) at which the behaviour starts.
StartSecs == 1000
\* Stand-in for the largest unix timestamp OffsetDateTime represents
\* (9999-12-31T23:59:59Z); the real value does not fit TLC's integers.
MaxDateTimeSecs == 1000000

(***************************************************************************)
(* Subject types: implementors of ClaimsSubTrait.  Default, ExpiredToken   *)
(* and DiffrentSecrets are the GenericTestSub<..> of the tests; the others *)
(* are further types the trait admits (any Serialize type, any u64         *)
(* DURATION).                                                              *)
(***************************************************************************)
SubTypes == {"Default", "ExpiredToken", "DiffrentSecrets",
             "ZeroTtl", "ExpField", "Newtype", "Eternal"}

\* const DURATION: u64
DURATION(T) ==
    CASE T = "Default"         -> 60 * 60
      [] T = "ExpiredToken"    -> 1
      [] T = "DiffrentSecrets" -> 60 * 60
      [] T = "ZeroTtl"         -> 0
      [] T = "ExpField"        -> 1
      [] T = "Newtype"         -> 1
      [] T = "Eternal"         -> MaxDateTimeSecs + 1   \* stands for u64::MAX

\* fn secret<'a>() -> &'a [u8]
secret(T) ==
    CASE T = "Default"         -> "test_secret"
      [] T = "ExpiredToken"    -> "test_secret"
      [] T = "DiffrentSecrets" -> "different_test_secret"
      [] T = "ZeroTtl"         -> "zero_secret"
      [] T = "ExpField"        -> "exp_field_secret"
      [] T = "Newtype"         -> "test_secret"
      [] T = "Eternal"         -> "test_secret"

\* How the type serializes: a struct with named fields, or a tuple struct
\* around a scalar (struct Newtype(String)).
Shape(T) == IF T = "Newtype" THEN "scalar" ELSE "struct"

\* The names of the struct's fields, in declaration order.
Fields(T) ==
    CASE T = "ExpField" -> <<"id", "exp">>
      [] T = "Newtype"  -> <<>>
      [] OTHER          -> <<"id", "name">>

\* Subject values: the field values in declaration order (all Strings).
Subjects == {<<"123", "John">>, <<"456", "Jane">>}

(***************************************************************************)
(* JSON values and the text of a token.                                    *)
(***************************************************************************)
StrV(s) == [t |-> "str", s |-> s, n |-> 0]
IntV(n) == [t |-> "int", s |-> "", n |-> n]
Pair(k, v) == [k |-> k, v |-> v]

\* A String.  form "jwt": three '.'-separated segments, the base64url of a
\* header naming `header` as alg, the base64url of the JSON object `body`
\* (its key/value pairs in order, duplicates kept), and the characters
\* `sig`.  form "text": any other text (`header` holds it).
JwtString(h, b, s) == [form |-> "jwt", header |-> h, body |-> b, sig |-> s]
Text(s) == [form |-> "text", header |-> s, body |-> <<>>, sig |-> <<>>]
NoString == [form |-> "none", header |-> "", body |-> <<>>, sig |-> <<>>]

\* The strings of the model, for the character codes of a signature.
Alphabet == <<"HS256", "HS512", "test_secret", "different_test_secret",
              "zero_secret", "exp_field_secret", "id", "name", "exp", "iat",
              "123", "John", "456", "Jane", "admin", "">>

Code(s) == CHOOSE i \in 1..Len(Alphabet) : Alphabet[i] = s

ValCode(v) == IF v.t = "int" THEN v.n ELSE 0 - Code(v.s)

(***************************************************************************)
(* serde: #[derive(Serialize, Deserialize)] of Decoded<T>, whose `sub` is  *)
(* #[serde(flatten)].                                                      *)
(***************************************************************************)
Envelope(s, e, i) == [sub |-> s, exp |-> e, iat |-> i]
NoEnvelope == Envelope(<<>>, 0, 0)

\* A Serialize that writes the subject as one entry in place of flattening
\* it: every subject serializes.
SerializeDecoded_Nested(T, c) ==
    [ok |-> TRUE,
     body |-> <<Pair("id", StrV("")), Pair("exp", IntV(c.exp)), Pair("iat", IntV(c.iat))>>]

\* Serialize for Decoded<T>: a map holding the entries that T writes
\* (flattened), then "exp", then "iat".  Nothing merges entries of the same
\* name.  A T that is no struct or map cannot be flattened: an error.
SerializeDecoded(T, c) ==
    IF Shape(T) # "struct"
    THEN [ok |-> FALSE, body |-> <<>>]
    ELSE [ok |-> TRUE,
          body |-> [i \in 1..Len(Fields(T)) |-> Pair(Fields(T)[i], StrV(c.sub[i]))]
                   \o <<Pair("exp", IntV(c.exp)), Pair("iat", IntV(c.iat))>>]

\* The positions of key k in a JSON object.
At(body, k) == {i \in 1..Len(body) : body[i].k = k}

\* The entries the derived visitor of Decoded<T> hands on to T: every key
\* other than its own "exp" and "iat".
Collected(body) == {i \in 1..Len(body) : body[i].k \notin {"exp", "iat"}}

\* Deserialize for Decoded<T>: "exp" and "iat" are taken by Decoded itself,
\* each exactly once and an integer (a second one is `duplicate field`, none
\* is `missing field`); T is read from the remaining entries, each of its
\* fields exactly once and a string, unknown keys ignored.
DeserializeOk(T, body) ==
    /\ Shape(T) = "struct"
    /\ \A k \in {"exp", "iat"} :
          /\ Cardinality(At(body, k)) = 1
          /\ \A i \in At(body, k) : body[i].v.t = "int"
    /\ \A j \in 1..Len(Fields(T)) :
          /\ Cardinality(At(body, Fields(T)[j]) \cap Collected(body)) = 1
          /\ \A i \in At(body, Fields(T)[j]) \cap Collected(body) : body[i].v.t = "str"

\* The value of the only entry of key k.
Get(body, k) == body[CHOOSE i \in At(body, k) : TRUE].v

DeserializeDecoded(T, body) ==
    IF DeserializeOk(T, body)
    THEN [ok |-> TRUE,
          claims |-> Envelope([j \in 1..Len(Fields(T)) |-> Get(body, Fields(T)[j]).s],
                              Get(body, "exp").n, Get(body, "iat").n)]
    ELSE [ok |-> FALSE, claims |-> NoEnvelope]

(***************************************************************************)
(* jsonwebtoken: encode and decode with Header::default() (HS256) and      *)
(* Validation::default() (HS256 only, exp required and validated, leeway   *)
(* of 60 seconds), as jwt.rs calls them.                                   *)
(***************************************************************************)
\* Validation::default().leeway
Leeway == 60

\* Header::default().alg and Validation::default().algorithms
DefaultAlg == "HS256"

\* The characters that spell out a key and a message.
Spell(key, header, body) ==
    <<Code(key), Code(header)>>
    \o [i \in 1..(2 * Len(body)) |->
          IF i % 2 = 1 THEN Code(body[(i + 1) \div 2].k)
                       ELSE ValCode(body[i \div 2].v)]

RECURSIVE Sum(_)
Sum(seq) == IF seq = <<>> THEN 0 ELSE Head(seq) + Sum(Tail(seq))

\* The HMAC of header.body under a key, as the characters of the signature
\* segment.  The MAC is idealised: no two keys or messages share a
\* signature (the characters spell them out), and two signatures never
\* differ in one character only (a check character closes them).
Sign(key, header, body) ==
    LET w == Spell(key, header, body) IN Append(w, Sum(w))

\* A signature check that stops one character short.
VerifySignature_Short(key, str) ==
    /\ Len(str.sig) = Len(Sign(key, str.header, str.body))
    /\ \A i \in 1..(Len(str.sig) - 1) : str.sig[i] = Sign(key, str.header, str.body)[i]

\* Signature check of jsonwebtoken: sign the message again, compare.
VerifySignature(key, str) == Sign(key, str.header, str.body) = str.sig

\* jsonwebtoken::encode(&header, &claims, &key)
JwtEncode(T, c, key) ==
    LET ser == SerializeDecoded(T, c) IN
    IF ser.ok
    THEN [ok |-> TRUE, str |-> JwtString(DefaultAlg, ser.body, Sign(key, DefaultAlg, ser.body)),
          kind |-> ""]
    ELSE [ok |-> FALSE, str |-> NoString, kind |-> "Json"]

\* An expiry rule that is one second late.
Expired_Late(exp, secs) == exp < secs - Leeway - 1

\* An expiry rule without leeway.
Expired_NoLeeway(exp, secs) == exp < secs

\* An expiry rule with a window: what has been expired for the hour of
\* DURATION or longer counts as fresh again.
Expired_Window(exp, secs) ==
    exp < secs - Leeway /\ secs - Leeway - exp < DURATION("Default")

\* The expiry rule of jsonwebtoken's validate: a token is expired when its
\* exp is below the current time less the leeway.
Expired(exp, secs) == exp < secs - Leeway

\* jsonwebtoken::decode(token, &key, &validation) at unix time `secs`:
\* split, header, algorithm, signature, body as Decoded<T>, then exp.
JwtDecode(T, str, key, secs) ==
    LET de == DeserializeDecoded(T, str.body) IN
    CASE str.form # "jwt"              -> [ok |-> FALSE, claims |-> NoEnvelope, kind |-> "InvalidToken"]
      [] str.header # DefaultAlg       -> [ok |-> FALSE, claims |-> NoEnvelope, kind |-> "InvalidAlgorithm"]
      [] ~VerifySignature(key, str)    -> [ok |-> FALSE, claims |-> NoEnvelope, kind |-> "InvalidSignature"]
      [] ~de.ok                        -> [ok |-> FALSE, claims |-> NoEnvelope, kind |-> "Json"]
      [] Expired(de.claims.exp, secs)  -> [ok |-> FALSE, claims |-> NoEnvelope, kind |-> "ExpiredSignature"]
      [] OTHER                         -> [ok |-> TRUE, claims |-> de.claims, kind |-> ""]

(***************************************************************************)
(* jwt.rs: Error, and the methods of Claims as functions of their inputs.  *)
(***************************************************************************)
\* An Error with one variant for signing and one for verification.
Error_Split(kind) ==
    [variant |-> IF kind = "Json" THEN "Signing" ELSE "Verification", kind |-> kind]

\* enum Error { Jsonwebtoken(#[from] jsonwebtoken::errors::Error) }
NoError == [variant |-> "", kind |-> ""]
Error(kind) == [variant |-> "Jsonwebtoken", kind |-> kind]

\* OffsetDateTime::unix_timestamp(): whole seconds.
unix_timestamp(clk) == clk \div SubPerSec

\* The values a caller holds.  kind: none | Encoded | Decoded | String |
\* Envelope | Subject | Err | Panic | SerdeErr.
Value(kind, T, str, claims, err) ==
    [kind |-> kind, T |-> T, str |-> str, claims |-> claims, err |-> err]
Nothing == Value("none", "", NoString, NoEnvelope, NoError)

\* Claims<T, Decoded<T>>::encode
encode(T, c) ==
    LET r == JwtEncode(T, c, secret(T)) IN
    IF r.ok THEN Value("Encoded", T, r.str, NoEnvelope, NoError)
            ELSE Value("Err", T, NoString, NoEnvelope, Error(r.kind))

\* A new that takes DURATION in clock units (Duration::from_millis for
\* from_secs).
new_Units(T, s, clk) ==
    LET iat == clk
        exp == iat + DURATION(T)
    IN  IF unix_timestamp(exp) > MaxDateTimeSecs
        THEN Value("Panic", T, NoString, NoEnvelope, NoError)
        ELSE encode(T, Envelope(s, unix_timestamp(exp), unix_timestamp(iat)))

\* A new that stops at the stamped envelope and returns it Decoded.
new_NoEncode(T, s, clk) ==
    LET iat == clk
        exp == iat + DURATION(T) * SubPerSec
    IN  IF unix_timestamp(exp) > MaxDateTimeSecs
        THEN Value("Panic", T, NoString, NoEnvelope, NoError)
        ELSE Value("Decoded", T, NoString,
                   Envelope(s, unix_timestamp(exp), unix_timestamp(iat)), NoError)

\* Claims::new at clock reading clk: iat + Duration panics past the range
\* of OffsetDateTime.
new(T, s, clk) ==
    LET iat == clk
        exp == iat + DURATION(T) * SubPerSec
    IN  IF unix_timestamp(exp) > MaxDateTimeSecs
        THEN Value("Panic", T, NoString, NoEnvelope, NoError)
        ELSE encode(T, Envelope(s, unix_timestamp(exp), unix_timestamp(iat)))

\* Claims<T, Encoded>::token
token(v) == Value("String", "", v.str, NoEnvelope, NoError)

\* A from that looks at the string and refuses what is no token.
from_Checked(T, str) ==
    IF str.form = "jwt" THEN Value("Encoded", T, str, NoEnvelope, NoError)
                        ELSE Value("Err", T, NoString, NoEnvelope, Error("InvalidToken"))

\* From<String> for Claims<T, Encoded>
from(T, str) == Value("Encoded", T, str, NoEnvelope, NoError)

\* A decode that stamps issued_at again, with its own clock reading.
decode_Restamp(v, clk) ==
    LET r == JwtDecode(v.T, v.str, secret(v.T), unix_timestamp(clk)) IN
    IF r.ok THEN Value("Decoded", v.T, NoString,
                       [r.claims EXCEPT !.iat = unix_timestamp(clk)], NoError)
            ELSE Value("Err", v.T, NoString, NoEnvelope, Error(r.kind))

\* A decode that borrows: its result still carries the string.
decode_KeepString(v, clk) ==
    LET r == JwtDecode(v.T, v.str, secret(v.T), unix_timestamp(clk)) IN
    IF r.ok THEN Value("Decoded", v.T, v.str, r.claims, NoError)
            ELSE Value("Err", v.T, NoString, NoEnvelope, Error(r.kind))

\* A decode that binds the type: it refuses an envelope whose lifetime is
\* not the DURATION of the type it decodes as.
decode_TypeBound(v, clk) ==
    LET r == JwtDecode(v.T, v.str, secret(v.T), unix_timestamp(clk)) IN
    IF r.ok /\ r.claims.exp - r.claims.iat = DURATION(v.T)
    THEN Value("Decoded", v.T, NoString, r.claims, NoError)
    ELSE Value("Err", v.T, NoString, NoEnvelope,
               Error(IF r.ok THEN "InvalidSubject" ELSE r.kind))

\* Claims<T, Encoded>::decode at clock reading clk
decode(v, clk) ==
    LET r == JwtDecode(v.T, v.str, secret(v.T), unix_timestamp(clk)) IN
    IF r.ok THEN Value("Decoded", v.T, NoString, r.claims, NoError)
            ELSE Value("Err", v.T, NoString, NoEnvelope, Error(r.kind))

\* TryFrom<String> for ClaimsDecoded<T>
try_from(T, str, clk) == decode(from(T, str), clk)

\* Claims<T, Decoded<T>>::claims
claims(v) == Value("Envelope", v.T, NoString, v.claims, NoError)

\* Claims<T, Decoded<T>>::sub
sub(v) == Value("Subject", v.T, NoString, Envelope(v.claims.sub, 0, 0), NoError)

\* #[derive(Deserialize)] #[serde(transparent)] of Claims<T, Decoded<T>>:
\* serde reads a Decoded<T> straight from a JSON object.
deserialize(T, body) ==
    LET r == DeserializeDecoded(T, body) IN
    IF r.ok THEN Value("Decoded", T, NoString, r.claims, NoError)
            ELSE Value("SerdeErr", T, NoString, NoEnvelope, NoError)

(***************************************************************************)
(* The environment: the clock, and what arrives from outside.              *)
(***************************************************************************)
\* Clock advances, in clock units: a fraction of a second, one second, the
\* leeway, the hour of DURATION.
TickSteps == {1, SubPerSec, Leeway * SubPerSec, DURATION("Default") * SubPerSec}

\* A JSON object written by somebody else: well formed for the structs with
\* fields id and name, never expiring.
ForgedBody == <<Pair("id", StrV("admin")), Pair("name", StrV("admin")),
                Pair("exp", IntV(MaxDateTimeSecs)), Pair("iat", IntV(0))>>

\* The body of a token of another issuer that holds the tests' secret and
\* whose clock is far ahead: issued in the future.
FutureBody == <<Pair("id", StrV("123")), Pair("name", StrV("John")),
                Pair("exp", IntV(MaxDateTimeSecs)), Pair("iat", IntV(MaxDateTimeSecs - 1))>>

\* The body of a token of such an issuer that expires before it is issued.
BackwardsBody == <<Pair("id", StrV("123")), Pair("name", StrV("John")),
                   Pair("exp", IntV(MaxDateTimeSecs - 1)), Pair("iat", IntV(MaxDateTimeSecs))>>

\* Strings a caller may receive: empty, not a token, a token without a valid
\* signature, a token of another algorithm made with the tests' secret,
\* tokens signed elsewhere with the tests' secret.
ExternalStrings ==
    {Text(""), Text("admin"),
     JwtString(DefaultAlg, ForgedBody, <<>>),
     JwtString("HS512", ForgedBody, Sign("test_secret", "HS512", ForgedBody)),
     JwtString(DefaultAlg, FutureBody, Sign("test_secret", DefaultAlg, FutureBody)),
     JwtString(DefaultAlg, BackwardsBody, Sign("test_secret", DefaultAlg, BackwardsBody))}

\* JSON objects a caller may hand to serde.
ExternalBodies == {ForgedBody, BackwardsBody, <<>>}

\* Characters that may replace one character of a signature.
TamperChars(c) == {c + 1}

(***************************************************************************)
(* State.                                                                  *)
(*   now     the clock, in 1/SubPerSec seconds                            *)
(*   ticks   clock advances so far                                        *)
(*   obs     the caller's latest own reading of the clock (seconds)       *)
(*   val     the value the caller holds                                   *)
(*   last    the call that made the token, string or error now held, its  *)
(*           input and the clock it read, if any (claims and sub leave    *)
(*           it; token after from keeps the string that from was given;   *)
(*           decode_again is a decode of the same string as the same type *)
(*           later than a decode that failed for expiry)                  *)
(*   minted  the latest successful new: its type, subject, the string of  *)
(*           its token, the clock readings around it                      *)
(***************************************************************************)
Call(op, T, input, at) == [op |-> op, T |-> T, input |-> input, at |-> at]
NoCall == Call("", "", NoString, 0)

NoMint == [live |-> FALSE, T |-> "", sub |-> <<>>, str |-> NoString,
           at |-> 0, t0 |-> 0, t1 |-> 0 - 1]

Init ==
    /\ now = StartSecs * SubPerSec
    /\ ticks = 0
    /\ obs = StartSecs
    /\ val = Nothing
    /\ last = NoCall
    /\ minted = NoMint

\* Time passes (the clock does not go back).  Only the calls that read the
\* clock can tell: new, the caller's own reading before and after it, and
\* decode (from reads no clock, so time that passes between from and decode
\* is time that passed before from).  The clock is advanced in front of them.
Tick(d) ==
    /\ ticks < MaxTicks
    /\ val.kind \in {"none", "String"} \/ (val.kind = "Encoded" /\ last.op = "new")
    /\ now' = now + d
    /\ ticks' = ticks + 1
    /\ UNCHANGED <<obs, val, last, minted>>

\* The caller reads the clock: OffsetDateTime::now_utc().unix_timestamp().
\* The first reading after a new is kept as its t1.
Observe ==
    /\ \/ val.kind = "none" /\ obs # unix_timestamp(now)
       \/ val.kind = "Encoded" /\ last.op = "new" /\ minted.t1 < 0
    /\ obs' = unix_timestamp(now)
    /\ minted' = IF minted.live /\ minted.t1 < 0
                 THEN [minted EXCEPT !.t1 = unix_timestamp(now)]
                 ELSE minted
    /\ UNCHANGED <<now, ticks, val, last>>

\* Claims::new(subject) for subject type T.
CallNew(T, s) ==
    /\ val.kind = "none"
    /\ val' = new(T, s, now)
    /\ last' = Call("new", T, NoString, 0)
    /\ minted' = IF val'.kind = "Encoded"
                 THEN [live |-> TRUE, T |-> T, sub |-> s, str |-> val'.str,
                       at |-> now, t0 |-> obs, t1 |-> 0 - 1]
                 ELSE NoMint
    /\ UNCHANGED <<now, ticks, obs>>

\* encoded.token()
CallToken ==
    /\ val.kind = "Encoded"
    /\ val' = token(val)
    /\ last' = Call(IF last.op = "from" THEN "from_token" ELSE "token", "",
                    IF last.op = "from" THEN last.input ELSE val.str, 0)
    /\ UNCHANGED <<now, ticks, obs, minted>>

\* Claims::<T, Encoded>::from(string)
CallFrom(T) ==
    /\ val.kind = "String"
    /\ val' = from(T, val.str)
    /\ last' = Call("from", "", val.str, 0)
    /\ UNCHANGED <<now, ticks, obs, minted>>

\* encoded.decode()
CallDecode ==
    /\ val.kind = "Encoded"
    /\ val' = decode(val, now)
    /\ last' = Call("decode", val.T, val.str, now)
    /\ UNCHANGED <<now, ticks, obs, minted>>

\* ClaimsDecoded::<T>::try_from(string)
CallTryFrom(T) ==
    /\ val.kind = "String"
    /\ val' = try_from(T, val.str, now)
    /\ last' = Call(IF last.op = "retry_expired" /\ last.T = T /\ now > last.at
                    THEN "decode_again" ELSE "decode", T, val.str, now)
    /\ UNCHANGED <<now, ticks, obs, minted>>

\* decoded.claims()
CallClaims ==
    /\ val.kind = "Decoded"
    /\ val' = claims(val)
    /\ UNCHANGED <<now, ticks, obs, last, minted>>

\* decoded.sub()
CallSub ==
    /\ val.kind = "Decoded"
    /\ val' = sub(val)
    /\ UNCHANGED <<now, ticks, obs, last, minted>>

\* serde_json::from_str::<ClaimsDecoded<T>>(json) through the derived
\* Deserialize.
CallDeserialize(T, body) ==
    /\ val.kind = "none"
    /\ val' = deserialize(T, body)
    /\ last' = Call("deserialize", T, JwtString("", body, <<>>), now)
    /\ UNCHANGED <<now, ticks, obs, minted>>

\* A string arrives from outside.
Receive(str) ==
    /\ val.kind = "none"
    /\ val' = Value("String", "", str, NoEnvelope, NoError)
    /\ last' = Call("receive", "", str, 0)
    /\ UNCHANGED <<now, ticks, obs, minted>>

\* The string of a token made by new has character i of its signature
\* replaced while in transit.
Tamper(i, c) ==
    /\ val.kind = "String"
    /\ minted.live /\ val.str = minted.str /\ last.op = "token"
    /\ i \in 1..Len(val.str.sig)
    /\ c \in TamperChars(val.str.sig[i])
    /\ val' = [val EXCEPT !.str.sig[i] = c]
    /\ last' = Call("tamper", "", val.str, 0)
    /\ UNCHANGED <<now, ticks, obs, minted>>

\* The caller kept a copy of the string it had decoded (String is Clone) and
\* takes it up again; `last` keeps the type and the clock of that decode,
\* and whether it failed for expiry.
Retry ==
    /\ last.op = "decode"
    /\ val.kind \in {"Decoded", "Err"}
    /\ val' = Value("String", "", last.input, NoEnvelope, NoError)
    /\ last' = Call(IF val.err.kind = "ExpiredSignature" THEN "retry_expired" ELSE "retry",
                    last.T, last.input, last.at)
    /\ UNCHANGED <<now, ticks, obs, minted>>

\* The caller lets go of what it holds.
Drop ==
    /\ val.kind # "none"
    /\ val' = Nothing
    /\ last' = NoCall
    /\ minted' = NoMint
    /\ UNCHANGED <<now, ticks, obs>>

\* The caller's calls, the clock, and what arrives from outside.
Next ==
    \/ \E d \in TickSteps : Tick(d)
    \/ \E T \in SubTypes, s \in Subjects : CallNew(T, s)
    \/ CallToken
    \/ \E T \in SubTypes : CallFrom(T)
    \/ CallDecode
    \/ \E T \in SubTypes : CallTryFrom(T)
    \/ CallClaims
    \/ CallSub
    \/ \E T \in SubTypes, body \in ExternalBodies : CallDeserialize(T, body)
    \/ \E str \in ExternalStrings : Receive(str)
    \/ \E i \in 1..Len(val.str.sig) : \E c \in TamperChars(val.str.sig[i]) : Tamper(i, c)
    \/ Drop

Spec == Init /\ [][Next]_vars

\* The caller that reads the clock around new and decodes what it made
\* (tests::test_claims), with nothing arriving from outside.
NextObserved ==
    \/ \E d \in TickSteps : Tick(d)
    \/ Observe
    \/ \E T \in SubTypes, s \in Subjects : CallNew(T, s)
    \/ CallToken
    \/ \E T \in SubTypes : CallFrom(T)
    \/ CallDecode
    \/ \E T \in SubTypes : CallTryFrom(T)
    \/ CallClaims
    \/ CallSub
    \/ Drop

SpecObserved == Init /\ [][NextObserved]_vars

\* The caller that decodes the same string again and again as time passes.
NextRetry ==
    \/ \E d \in TickSteps : Tick(d)
    \/ \E T \in SubTypes, s \in Subjects : CallNew(T, s)
    \/ CallToken
    \/ \E T \in SubTypes : CallTryFrom(T)
    \/ Retry
    \/ \E str \in ExternalStrings : Receive(str)
    \/ Drop

SpecRetry == Init /\ [][NextRetry]_vars

(***************************************************************************)
(* Properties.                                                             *)
(***************************************************************************)
\* The value held came out of a decode (decode or try_from).
FromDecode == last.op = "decode"

\* ... of the very string that the latest new produced.
OfMinted == FromDecode /\ minted.live /\ last.input = minted.str

\* ... decoded as the subject type it was made for.
AsOwnType == OfMinted /\ last.T = minted.T

\* The unix time the decode read.
DecodedAt == unix_timestamp(last.at)

\* issued_at and expires_at of the token of the latest new.
MintedIat == unix_timestamp(minted.at)
MintedExp == MintedIat + DURATION(minted.T)

\* The decode was accepted: a Decoded token, or what its accessors gave.
Accepted == val.kind \in {"Decoded", "Envelope", "Subject"}

\* s is t with exactly one character of the signature segment replaced.
IsSigTamper(s, t) ==
    /\ s.form = "jwt" /\ t.form = "jwt"
    /\ s.header = t.header /\ s.body = t.body
    /\ Len(s.sig) = Len(t.sig)
    /\ Cardinality({i \in 1..Len(t.sig) : s.sig[i] # t.sig[i]}) = 1

\* C1 (as claimed): round trip.  Decoding the string of a token made by
\* new(s), as the type it was made for and not after its expiry, succeeds
\* and yields a subject equal to s.
C1_RoundTrip ==
    (AsOwnType /\ DecodedAt <= MintedExp)
        => (Accepted /\ val.claims.sub = minted.sub)

\* C2: expiry.  Decoding the string of a token made by new at a clock value
\* later than expires_at plus the leeway fails, as whatever type, and never
\* gives a Decoded token.
C2_Expiry ==
    (OfMinted /\ DecodedAt > MintedExp + Leeway)
        => (val.kind = "Err" /\ ~Accepted)

\* C2, its case: signature valid, body well formed, the only reason is expiry.
C2_Witness ==
    /\ AsOwnType /\ DecodedAt > MintedExp + Leeway
    /\ val.kind = "Err" /\ val.err.kind = "ExpiredSignature"

\* C3 (as claimed): secret isolation.  The unexpired string of a token made
\* for A fails to decode as any B whose secret differs, and decodes as A.
C3_SecretIsolation ==
    (OfMinted /\ DecodedAt <= MintedExp)
        => /\ secret(last.T) # secret(minted.T) => val.kind = "Err"
           /\ last.T = minted.T => Accepted

\* C4: tamper detection.  The string of a token made by new with one
\* character of its signature replaced is never accepted: decode returns an
\* error (and does not panic).
C4_TamperDetected ==
    (FromDecode /\ minted.live /\ IsSigTamper(last.input, minted.str))
        => (val.kind = "Err" /\ val.err.variant = "Jsonwebtoken")

\* C4, its case: a tampered, unexpired token decoded as its own type.
C4_Witness ==
    /\ FromDecode /\ minted.live /\ IsSigTamper(last.input, minted.str)
    /\ last.T = minted.T /\ DecodedAt <= MintedExp
    /\ val.kind = "Err" /\ val.err.kind = "InvalidSignature"

\* C5 (as claimed): trust boundary.  A Decoded token always comes out of a
\* decode that verified the signature with the type's secret and checked
\* the expiry at that moment.
C5_TrustBoundary ==
    val.kind = "Decoded"
        => /\ FromDecode
           /\ VerifySignature(secret(val.T), last.input)
           /\ ~Expired(val.claims.exp, DecodedAt)

\* C6: timestamp invariant.  On the envelope obtained by decoding a token
\* made by new for T, issued_at <= expires_at and their difference is T's
\* DURATION exactly.
C6_Timestamps ==
    (AsOwnType /\ val.kind \in {"Decoded", "Envelope"})
        => /\ val.claims.iat <= val.claims.exp
           /\ val.claims.exp - val.claims.iat = DURATION(minted.T)

\* C6, its case: the envelope of a one-hour token made in mid-second.
C6_Witness ==
    /\ AsOwnType /\ val.kind = "Envelope"
    /\ DURATION(minted.T) = 60 * 60
    /\ minted.at % SubPerSec # 0

\* C7: issued-at bound.  With t0 read before new is called and t1 read
\* after it returned, the issued_at recovered by decoding the token lies in
\* t0..t1, however late the decode (decode does not stamp again).
C7_IssuedAtBound ==
    (AsOwnType /\ val.kind \in {"Decoded", "Envelope"} /\ minted.t1 >= 0)
        => (minted.t0 <= val.claims.iat /\ val.claims.iat <= minted.t1)

\* C7, its case: time passed on both sides of new, and before the decode.
C7_Witness ==
    /\ AsOwnType /\ val.kind = "Envelope" /\ minted.t1 >= 0
    /\ minted.t0 < val.claims.iat /\ val.claims.iat < minted.t1
    /\ DecodedAt > minted.t1

\* C8: opacity.  Wrapping any string gives an Encoded token holding that
\* string, extracting gives the string back, and an error about a string
\* comes only from decode.
C8_Opacity ==
    /\ last.op = "from" => (val.kind = "Encoded" /\ val.str = last.input)
    /\ last.op = "from_token" => (val.kind = "String" /\ val.str = last.input)
    /\ (val.kind = "Err" /\ last.op # "new") => FromDecode

\* C8, its case: the empty string, wrapped and taken out again.
C8_Witness ==
    /\ last.op = "from_token" /\ val.kind = "String"
    /\ val.str = Text("")

\* C9 (as claimed): lifecycle start.  What new returns is a token in the
\* Decoded state.
C9_NewYieldsDecoded ==
    (last.op = "new" /\ val.kind \notin {"Err", "Panic"}) => val.kind = "Decoded"

\* C9 (amended): what new returns is a token in the Encoded state: the
\* freshly stamped envelope already serialized and signed with the type's
\* secret; new never leaves a Decoded token.
C9_NewYieldsEncoded ==
    (last.op = "new" /\ val.kind \notin {"Err", "Panic"})
        => /\ val.kind = "Encoded" /\ val.T = last.T
           /\ val.str.body =
                 SerializeDecoded(val.T, Envelope(minted.sub, MintedExp, MintedIat)).body
           /\ VerifySignature(secret(val.T), val.str)

\* C9, its case: a token just returned by new, some time after the start.
C9_Witness ==
    /\ last.op = "new" /\ val.kind = "Encoded" /\ minted.at > StartSecs * SubPerSec

\* C10 (as claimed): two kinds of error.  The error of a failing new
\* (signing) differs from the error of every failing decode (verification).
C10_TwoKinds ==
    (val.kind = "Err" /\ last.op = "new")
        => \A T \in SubTypes, U \in SubTypes, s \in Subjects :
              LET e == new(T, s, now) IN
              (e.kind = "Encoded" /\ try_from(U, e.str, now).kind = "Err")
                  => try_from(U, e.str, now).err # val.err

\* C10 (amended): one kind of error.  Every error is Error::Jsonwebtoken
\* around the error of the primitive, and comes from new or from decode.
C10_OneKind ==
    val.kind = "Err"
        => /\ val.err.variant = "Jsonwebtoken"
           /\ last.op \in {"new", "decode"}
           /\ last.op = "new" => val.err.kind = "Json"
           /\ last.op = "decode" =>
                 val.err.kind \in {"InvalidToken", "InvalidAlgorithm", "InvalidSignature",
                                   "Json", "ExpiredSignature"}

\* C10, its case: a failing new.
C10_Witness ==
    val.kind = "Err" /\ last.op = "new" /\ val.err = Error("Json")

\* The string decoded is a token validly signed for the type it is decoded
\* as, and well formed: its body deserializes as that type.
WellFormed ==
    /\ last.input.form = "jwt" /\ last.input.header = DefaultAlg
    /\ VerifySignature(secret(last.T), last.input)
    /\ DeserializeOk(last.T, last.input.body)

\* expires_at of the string decoded.
InputExp == Get(last.input.body, "exp").n

\* C11: leeway window.  The decode of a validly signed, well-formed token
\* fails only for expiry and only at a time later than expires_at + leeway;
\* at every time up to expires_at + leeway, the seconds after expires_at
\* included, it succeeds and yields the expires_at of the string.
C11_LeewayWindow ==
    /\ (FromDecode /\ WellFormed)
          => /\ val.kind = "Err" => /\ val.err.kind = "ExpiredSignature"
                                    /\ DecodedAt > InputExp + Leeway
             /\ DecodedAt <= InputExp + Leeway
                   => /\ Accepted
                      /\ val.kind = "Decoded" => val.claims.exp = InputExp
    /\ (FromDecode /\ val.kind = "Err" /\ val.err.kind = "ExpiredSignature")
          => (WellFormed /\ DecodedAt > InputExp + Leeway)

\* C11, its case: a token of time_to_live 0 decoded after its expires_at,
\* within the leeway.
C11_Witness ==
    /\ AsOwnType /\ minted.T = "ZeroTtl" /\ val.kind = "Decoded"
    /\ MintedExp = MintedIat
    /\ DecodedAt > MintedExp /\ DecodedAt <= MintedExp + Leeway

\* C12 (as claimed): envelope invariant.  Every envelope held by a Decoded
\* token, or taken out of one, has expires_at >= issued_at, the envelopes
\* that decode rebuilds from an accepted string included.
C12_EnvelopeInvariant ==
    val.kind \in {"Decoded", "Envelope"} => val.claims.exp >= val.claims.iat

\* A value is a token in one state only: Encoded around a string and no
\* envelope, or Decoded around an envelope and no string.
OneState(v) ==
    /\ v.kind = "Encoded" => (v.str # NoString /\ v.claims = NoEnvelope)
    /\ v.kind = "Decoded" => v.str = NoString

\* C13: exclusive state and consumption.  A token is in exactly one of the
\* states Encoded and Decoded, and every operation on a token consumes it:
\* after token or decode of an Encoded token, and after claims or sub of a
\* Decoded token, the caller holds the result and no longer that token
\* (what follows an Encoded token is a string, a Decoded token, an error or
\* nothing; what follows a Decoded token is an envelope, a subject or
\* nothing).
C13_ExclusiveConsumed ==
    [][ /\ OneState(val')
        /\ (val.kind = "Encoded" /\ val' # val)
              => val'.kind \in {"String", "Decoded", "Err", "none"}
        /\ (val.kind = "Decoded" /\ val' # val)
              => val'.kind \in {"Envelope", "Subject", "none"}
      ]_vars

\* C13, its case: decode has consumed the Encoded token of a new; what is
\* held is a Decoded token without a string.
C13_Witness ==
    /\ AsOwnType /\ val.kind = "Decoded" /\ val.str = NoString
    /\ val.claims.sub = minted.sub

\* C14 (as claimed): creation never fails.  For every subject and every
\* time_to_live a subject type can supply, new stamps the envelope without
\* overflow or panic, and the envelope it signs has
\* expires_at = issued_at + time_to_live.
C14_CreationNeverFails ==
    last.op = "new"
        => /\ val.kind # "Panic"
           /\ val.kind = "Encoded"
                 => \E i \in At(val.str.body, "exp"), j \in At(val.str.body, "iat") :
                       /\ val.str.body[i].v.t = "int" /\ val.str.body[j].v.t = "int"
                       /\ val.str.body[i].v.n = val.str.body[j].v.n + DURATION(last.T)

C16_WireBodyShape ==
    (last.op = "new" /\ val.kind = "Encoded")
        => LET body == val.str.body IN
           /\ \A i \in 1..Len(body) : body[i].v.t \in {"str", "int"}
           /\ \A j \in 1..Len(Fields(last.T)) :
                 \E i \in At(body, Fields(last.T)[j]) : body[i].v = StrV(minted.sub[j])
           /\ Cardinality(At(body, "exp")) = 1
           /\ Cardinality(At(body, "iat")) = 1
           /\ Get(body, "exp") = IntV(MintedExp)
           /\ Get(body, "iat") = IntV(MintedIat)

\* C17: the subject type is not bound into a token.  The string of a token
\* made for type A decodes as any type B whose secret equals A's and as
\* which the body deserializes, up to expires_at + leeway; the Decoded<B>
\* token holds the envelope stamped for A, so expires_at - issued_at is A's
\* time_to_live, whatever B's is.
C17_TypeNotBound ==
    (/\ OfMinted
     /\ secret(last.T) = secret(minted.T)
     /\ DeserializeOk(last.T, last.input.body)
     /\ DecodedAt <= MintedExp + Leeway)
        => /\ Accepted
           /\ val.T = last.T
           /\ val.kind = "Decoded"
                 => /\ val.claims.exp = MintedExp /\ val.claims.iat = MintedIat
                    /\ val.claims.exp - val.claims.iat = DURATION(minted.T)

\* C17, its case: a token made for the type of DURATION 3600 decoded as the
\* type of DURATION 1 with the same secret; the lifetime of the envelope is
\* not that of the type it was decoded as.
C17_Witness ==
    /\ OfMinted /\ minted.T = "Default" /\ last.T = "ExpiredToken"
    /\ val.kind = "Decoded" /\ val.T = "ExpiredToken"
    /\ val.claims.sub = minted.sub
    /\ val.claims.exp - val.claims.iat # DURATION(val.T)

\* issued_at of the string decoded.
InputIat == Get(last.input.body, "iat").n

\* C18: no resurrection.  The clock never goes back; once the decode of a
\* string as a type has failed for expiry, a later decode of the same
\* string as the same type fails for expiry too.  decode does not compare
\* issued_at with the clock: a validly signed, well-formed token whose
\* issued_at lies in the future is accepted up to expires_at + leeway, and
\* keeps its issued_at.
C18_NoResurrection ==
    /\ last.op = "decode_again"
          => (val.kind = "Err" /\ val.err.kind = "ExpiredSignature")
    /\ (/\ last.op \in {"decode", "decode_again"}
        /\ WellFormed
        /\ InputIat > DecodedAt
        /\ DecodedAt <= InputExp + Leeway)
          => (val.kind = "Decoded" /\ val.claims.iat = InputIat)

\* C18, its case: the string of a token made by new, decoded as its own
\* type after its expiry, and decoded again later.
C18_Witness ==
    /\ last.op = "decode_again" /\ val.kind = "Err"
    /\ minted.live /\ last.input = minted.str /\ last.T = minted.T
    /\ DecodedAt > MintedExp + Leeway + 1

====
